---------------------------- MODULE Spec2Model ----------------------------
(***************************************************************************)
(* Model of the two Streamlit chat programs of this repository:            *)
(*   Variant A  src/app.py         hosted inference API, retry + backoff   *)
(*   Variant B  src/app_ollama.py  local Ollama server, status probes      *)
(*                                                                         *)
(* A Streamlit script is re-run from its first line on every user          *)
(* interaction; st.session_state (here: messages) survives between runs,   *)
(* every other name is local to one run.  Texts are sequences of string    *)
(* tokens (single characters where the code inspects characters), so that  *)
(* startswith, strip, the substring test of `in` and f-string formatting   *)
(* are computed rather than assumed.                                       *)
(*                                                                         *)
(* A run is taken to completion before the next interaction is handled     *)
(* (the calls are synchronous).  An exception that leaves main ends the    *)
(* run; the session and its messages stay, and `uncaught` records it.      *)
(***************************************************************************)
EXTENDS Integers, Sequences, FiniteSets, TLC

VARIABLES
    variant,          \* "A" (app.py) or "B" (app_ollama.py): the program this session runs
    pc,               \* position of the script run
    trigger,          \* the interaction that started the current run
    view,             \* what the last render put in the main area: "none", "chat", "offline"
    messages,         \* st.session_state.messages
    prompt,           \* value returned by st.chat_input in this run
    max_retries,      \* query_huggingface parameter
    attempt,          \* query_huggingface loop variable
    events,           \* requests.post / time.sleep calls made by the current query, in order
    result,           \* value returned by query_huggingface
    response,         \* value returned by get_ai_response
    uncaught,         \* exception that ended the last script run, "none" otherwise
    ollama_status,    \* Variant B: value returned by check_ollama_status
    available_models, \* Variant B: value returned by get_available_models
    selected_model,   \* Variant B: model chosen in the sidebar
    replies,          \* Variant B: replies to the two GETs of /api/tags the run has just made
    cleared           \* history: turns dropped by the last clear, submissions started since

vars == <<variant, pc, trigger, view, messages, prompt, max_retries, attempt, events,
          result, response, uncaught, ollama_status, available_models, selected_model,
          replies, cleared>>

----------------------------------------------------------------------------
(* Bounds of the model *)

MaxRetriesBound == 4
MaxLog == 4

(* Program constants *)

DefaultMaxRetries == 3
RetryDelay == 1
BackoffBase == 2
HttpOk == 200
HttpLoading == 503

----------------------------------------------------------------------------
(* Texts *)

NoText == <<>>
ErrorKey == <<"e", "r", "r", "o", "r">>

Prompts == { <<"h", "i">>, <<"a">> }

\* Python: needle in haystack, for two str
IsSubstring(needle, hay) ==
    \E i \in 0..(Len(hay) - Len(needle)) : SubSeq(hay, i + 1, i + Len(needle)) = needle

\* Python: text.startswith(prefix)
StartsWith(text, prefix) ==
    /\ Len(prefix) <= Len(text)
    /\ SubSeq(text, 1, Len(prefix)) = prefix

RECURSIVE LStrip(_)
LStrip(text) ==
    IF text # <<>> /\ Head(text) = " " THEN LStrip(Tail(text)) ELSE text

RECURSIVE RStrip(_)
RStrip(text) ==
    IF text # <<>> /\ text[Len(text)] = " "
    THEN RStrip(SubSeq(text, 1, Len(text) - 1))
    ELSE text

\* Python: text.strip()
Strip(text) == RStrip(LStrip(text))

----------------------------------------------------------------------------
(* JSON values as the code sees them after response.json() *)

Elem(kind, text, gt_kind, gt) ==
    [kind |-> kind, text |-> text, gt_kind |-> gt_kind, gt |-> gt]

EStr(text) == Elem("str", text, "absent", NoText)
ENum == Elem("num", NoText, "absent", NoText)
EObjNoText == Elem("obj", NoText, "absent", NoText)
EObjNullText == Elem("obj", NoText, "null", NoText)
EObj(gt) == Elem("obj", NoText, "str", gt)

Json(kind, text, items, has_error, error) ==
    [kind |-> kind, text |-> text, items |-> items, has_error |-> has_error, error |-> error]

JNone == Json("none", NoText, <<>>, FALSE, NoText)
JNull == Json("null", NoText, <<>>, FALSE, NoText)
JNum == Json("num", NoText, <<>>, FALSE, NoText)
JStr(text) == Json("str", text, <<>>, FALSE, NoText)
JList(items) == Json("list", NoText, items, FALSE, NoText)
JObj == Json("obj", NoText, <<>>, FALSE, NoText)
JErr(error) == Json("obj", NoText, <<>>, TRUE, error)

GeneratedTexts ==
    { <<"h", "i", " ", "y", "o">>,     \* echo of the prompt "hi", then a reply
      <<"h", "i", " ">>,               \* echo only
      <<" ", "o", "k", " ">>,          \* no echo, padded reply
      <<>> }

\* Parsed bodies a 200 reply of the hosted API may carry: every JSON shape the code
\* tells apart.  A 200 reply whose body is not JSON is not modelled.
Bodies ==
    { JNull, JNum, JStr(<<"o", "k">>), JStr(<<"a", "n", " ">> \o ErrorKey),
      JList(<<>>), JList(<<EStr(ErrorKey)>>), JList(<<ENum>>),
      JList(<<EObjNoText>>), JList(<<EObjNullText>>),
      JErr(<<"overloaded">>), JObj }
    \cup { JList(<<EObj(t)>>) : t \in GeneratedTexts }

OtherStatuses == { 404, 500 }
Statuses == { HttpOk, HttpLoading } \cup OtherStatuses

\* requests.exceptions.RequestException subclasses raised by requests.post / requests.get
RequestExceptions == { "ConnectionError", "ReadTimeout" }

----------------------------------------------------------------------------
(* query_huggingface *)

PostEvent(status, exc, body) ==
    [kind |-> "post", status |-> status, exc |-> exc, secs |-> 0, body |-> body]

SleepEvent(secs) ==
    [kind |-> "sleep", status |-> 0, exc |-> "", secs |-> secs, body |-> JNone]

\* variation: every 5xx status taken for "model loading"
IsLoadingAny5xx(status) == status >= 500

\* elif response.status_code == 503
IsLoading(status) == status = HttpLoading

\* variation: off by one, the last attempt also waits
LoadingRetryLeftOffByOne(a, n) == a < n

\* if attempt < max_retries - 1   (503 branch)
LoadingRetryLeft(a, n) == a < n - 1

\* variation: off by one, the last failure also waits and is not reported
FailureRetryLeftOffByOne(a, n) == a < n

\* if attempt < max_retries - 1   (except branch)
FailureRetryLeft(a, n) == a < n - 1

\* variation: linear instead of exponential backoff
BackoffLinear(a) == BackoffBase * a

\* wait_time = 2 ** attempt
Backoff(a) == BackoffBase ^ a

\* {"error": f"HTTP {response.status_code}"}
HttpError(status) == JErr(<<"HTTP ", ToString(status)>>)

\* {"error": str(e)}
FailureError(exc) == JErr(<<exc>>)

\* variation: the last status reported instead of the generic error
LastStatusError == JErr(<<"HTTP ", ToString(HttpLoading)>>)

\* {"error": "Max retries exceeded"}
MaxRetriesError == JErr(<<"Max retries exceeded">>)

QueryLocals == <<variant, trigger, view, messages, prompt, max_retries, response, uncaught,
                 ollama_status, available_models, selected_model, replies, cleared>>

\* one loop iteration: the POST answers 200
Post200 ==
    /\ pc = "loop"
    /\ attempt < max_retries
    /\ \E body \in Bodies :
        /\ events' = Append(events, PostEvent(HttpOk, "", body))
        /\ result' = body
    /\ pc' = "returned"
    /\ UNCHANGED <<attempt, QueryLocals>>

\* one loop iteration: the POST answers 503
Post503 ==
    /\ pc = "loop"
    /\ attempt < max_retries
    /\ \E status \in Statuses :
        /\ status # HttpOk
        /\ IsLoading(status)
        /\ events' = Append(events, PostEvent(status, "", JNone))
                        \o (IF LoadingRetryLeft(attempt, max_retries)
                            THEN <<SleepEvent(Backoff(attempt))>>
                            ELSE <<>>)
    /\ attempt' = attempt + 1
    /\ UNCHANGED <<pc, result, QueryLocals>>

\* one loop iteration: the POST answers another status
PostOther ==
    /\ pc = "loop"
    /\ attempt < max_retries
    /\ \E status \in Statuses :
        /\ status # HttpOk
        /\ ~IsLoading(status)
        /\ events' = Append(events, PostEvent(status, "", JNone))
        /\ result' = HttpError(status)
    /\ pc' = "returned"
    /\ UNCHANGED <<attempt, QueryLocals>>

\* one loop iteration: the POST raises a RequestException
PostFail ==
    /\ pc = "loop"
    /\ attempt < max_retries
    /\ \E exc \in RequestExceptions :
        IF FailureRetryLeft(attempt, max_retries)
        THEN /\ events' = Append(events, PostEvent(0, exc, JNone)) \o <<SleepEvent(RetryDelay)>>
             /\ attempt' = attempt + 1
             /\ UNCHANGED <<pc, result>>
        ELSE /\ events' = Append(events, PostEvent(0, exc, JNone))
             /\ result' = FailureError(exc)
             /\ pc' = "returned"
             /\ UNCHANGED attempt
    /\ UNCHANGED QueryLocals

\* range(max_retries) is exhausted: the statement after the loop
LoopExit ==
    /\ pc = "loop"
    /\ attempt >= max_retries
    /\ result' = MaxRetriesError
    /\ pc' = "returned"
    /\ UNCHANGED <<attempt, events, QueryLocals>>

----------------------------------------------------------------------------
(* get_ai_response, Variant A *)

Returned(value) == [raised |-> FALSE, exc |-> "none", value |-> value]
Raised(exc) == [raised |-> TRUE, exc |-> exc, value |-> NoText]

\* "error" in result  raises TypeError: None and numbers are not iterable
InRaises(r) == r.kind \in {"null", "num"}

\* "error" in result: substring of a str, element of a list, key of a dict
InError(r) ==
    CASE r.kind = "str" -> IsSubstring(ErrorKey, r.text)
      [] r.kind = "list" -> \E i \in 1..Len(r.items) : r.items[i] = EStr(ErrorKey)
      [] r.kind = "obj" -> r.has_error
      [] OTHER -> FALSE

\* result['error']  raises TypeError on a str or a list
SubscriptRaises(r) == r.kind # "obj"

NotSure == <<"I'm not sure how to respond to that.">>
NoProper == <<"I didn't get a proper response. Please try again.">>

\* the body of the try block
Extraction(user_input, r) ==
    IF r.kind = "list" /\ Len(r.items) > 0
    THEN LET first == r.items[1] IN
         IF first.kind # "obj" THEN Raised("AttributeError")        \* no .get
         ELSE IF first.gt_kind = "null" THEN Raised("AttributeError")  \* None.startswith
         ELSE LET generated_text == IF first.gt_kind = "absent" THEN <<>> ELSE first.gt
                  stripped ==
                      IF StartsWith(generated_text, user_input)
                      THEN Strip(SubSeq(generated_text, Len(user_input) + 1,
                                        Len(generated_text)))
                      ELSE Strip(generated_text)
              IN  Returned(IF stripped # <<>> THEN stripped ELSE NotSure)
    ELSE Returned(NoProper)

\* get_ai_response after query_huggingface has returned r
get_ai_response(user_input, r) ==
    IF InRaises(r) THEN Raised("TypeError")
    ELSE IF InError(r)
    THEN IF SubscriptRaises(r) THEN Raised("TypeError")
         ELSE Returned(<<"Sorry, I encountered an error: ">> \o r.error)
    ELSE LET x == Extraction(user_input, r) IN
         IF x.raised THEN Returned(<<"Error processing response: ", x.exc>>) ELSE x

----------------------------------------------------------------------------
(* Variant B: probes and query_ollama *)

DefaultModel == "llama3.2:1b"

Listing(exc, status, kind) == [exc |-> exc, status |-> status, kind |-> kind]

\* what a GET of /api/tags can produce
ListingOutcomes ==
    { Listing(e, 0, "none") : e \in RequestExceptions }
    \cup { Listing("", s, "none") : s \in OtherStatuses }
    \cup { Listing("", HttpOk, k) :
             k \in {"models", "empty", "nokey", "notjson", "array", "nullmodels", "noname"} }

\* variation: only a refused connection is handled
StatusProbeCatchesRefusedOnly(exc) == exc = "ConnectionError"

\* except requests.exceptions.RequestException
StatusProbeCatches(exc) == exc \in RequestExceptions

check_ollama_status(o) ==
    IF o.exc # ""
    THEN IF StatusProbeCatches(o.exc)
         THEN Returned([keys |-> {"reachable", "error"}, reachable |-> FALSE,
                        status_code |-> 0, error |-> o.exc])
         ELSE Raised(o.exc)
    ELSE Returned([keys |-> {"reachable", "status_code", "body"},
                   reachable |-> (o.status = HttpOk), status_code |-> o.status,
                   error |-> ""])

\* the body of the try block of get_available_models
ListModels(o) ==
    IF o.exc # "" THEN Raised(o.exc)
    ELSE IF o.status # HttpOk THEN Returned(<<>>)
    ELSE CASE o.kind = "models" -> Returned(<<DefaultModel, "mistral">>)
           [] o.kind = "empty" -> Returned(<<>>)
           [] o.kind = "nokey" -> Returned(<<>>)               \* data.get("models", [])
           [] o.kind = "notjson" -> Raised("JSONDecodeError")  \* response.json()
           [] o.kind = "array" -> Raised("AttributeError")     \* list has no .get
           [] o.kind = "nullmodels" -> Raised("TypeError")     \* iterating None
           [] OTHER -> Raised("KeyError")                      \* model["name"]

\* bare except:
ModelsProbeCatches(exc) == TRUE

get_available_models(o) ==
    LET x == ListModels(o) IN
    IF x.raised
    THEN IF ModelsProbeCatches(x.exc) THEN Returned(<<>>) ELSE x
    ELSE x

\* Python truth value of a dict: false only when it has no key
Truthy(d) == d.keys # {}

Generation(exc, status, kind, text) ==
    [exc |-> exc, status |-> status, kind |-> kind, text |-> text]

\* what a POST to /api/generate can produce
GenerateOutcomes ==
    { Generation(e, 0, "none", NoText) : e \in {"ConnectionError", "Timeout", "TooManyRedirects"} }
    \cup { Generation("", s, "none", <<"oops">>) : s \in OtherStatuses }
    \cup { Generation("", HttpOk, k, <<"y", "o">>) : k \in {"response", "nokey", "array", "notjson"} }

query_ollama(o) ==
    IF o.exc = "ConnectionError"
    THEN <<"Cannot connect to Ollama. Please make sure Ollama is installed and running.">>
    ELSE IF o.exc = "Timeout"
    THEN <<"Request timed out. The model might be processing a complex query.">>
    ELSE IF o.exc # "" THEN <<"Unexpected error: ", o.exc>>
    ELSE IF o.status # HttpOk THEN <<"Error: ", ToString(o.status), " - ">> \o o.text
    ELSE CASE o.kind = "response" -> o.text
           [] o.kind = "nokey" -> <<"No response generated.">>
           [] o.kind = "notjson" -> <<"Unexpected error: ", "JSONDecodeError">>
           [] OTHER -> <<"Unexpected error: ", "AttributeError">>

----------------------------------------------------------------------------
(* main: the script run *)

Turn(role, content) == [role |-> role, content |-> content]

\* variation: the clear keeps the latest turn
ClearedLogKeepsLast(log) == IF log = <<>> THEN <<>> ELSE <<log[Len(log)]>>

\* st.session_state.messages = []
ClearedLog(log) == <<>>

\* the first statement a run of the program executes
Entry == IF variant = "B" THEN "start" ELSE "main"

\* if not ollama_status: ... else: ...
MainArea == IF variant = "B" /\ ~Truthy(ollama_status) THEN "offline" ELSE "chat"

NoStatus == [keys |-> {}, reachable |-> FALSE, status_code |-> 0, error |-> ""]

Session == <<variant, messages>>
QueryState == <<max_retries, attempt, events, result, response>>
Probed == <<ollama_status, available_models, selected_model>>

\* the user presses the Clear Chat button: a new run starts
ClickClear ==
    /\ pc = "idle"
    /\ trigger' = "clear"
    /\ pc' = Entry
    /\ prompt' = NoText
    /\ max_retries' = 0
    /\ attempt' = 0
    /\ events' = <<>>
    /\ result' = JNone
    /\ response' = NoText
    /\ uncaught' = "none"
    /\ replies' = <<>>
    /\ UNCHANGED <<Session, view, Probed, cleared>>

\* the user submits a prompt through the chat input the last render offered
TypePrompt ==
    /\ pc = "idle"
    /\ view = "chat"
    /\ Len(messages) + 2 <= MaxLog
    /\ trigger' = "submit"
    /\ pc' = Entry
    /\ prompt' \in Prompts
    /\ max_retries' = 0
    /\ attempt' = 0
    /\ events' = <<>>
    /\ result' = JNone
    /\ response' = NoText
    /\ uncaught' = "none"
    /\ replies' = <<>>
    /\ UNCHANGED <<Session, view, Probed, cleared>>

\* Variant B: check_ollama_status(), get_available_models(), the model selectbox
Probe ==
    /\ pc = "start"
    /\ \E so \in ListingOutcomes, mo \in ListingOutcomes :
        LET status == check_ollama_status(so)
            models == get_available_models(mo)
        IN  /\ replies' = <<so, mo>>
            /\ IF status.raised \/ models.raised
               THEN /\ uncaught' = (IF status.raised THEN status.exc ELSE models.exc)
                    /\ pc' = "idle"
                    /\ UNCHANGED Probed
               ELSE /\ ollama_status' = status.value
                    /\ available_models' = models.value
                    /\ selected_model' \in
                           (IF models.value # <<>>
                            THEN {models.value[i] : i \in 1..Len(models.value)}
                            ELSE {DefaultModel})
                    /\ pc' = "main"
                    /\ UNCHANGED uncaught
    /\ UNCHANGED <<Session, trigger, view, prompt, QueryState, cleared>>

\* if st.button("Clear Chat"): messages = []; st.rerun()
ClearChat ==
    /\ pc = "main"
    /\ trigger = "clear"
    /\ messages' = ClearedLog(messages)
    /\ cleared' = [dropped |-> Len(messages), submits |-> 0]
    /\ trigger' = "rerun"
    /\ pc' = Entry
    /\ replies' = <<>>
    /\ UNCHANGED <<variant, view, prompt, QueryState, uncaught, Probed>>

\* a run with no button pressed and no prompt: the page is drawn
Render ==
    /\ pc = "main"
    /\ trigger \in {"load", "rerun"}
    /\ view' = MainArea
    /\ pc' = "idle"
    /\ replies' = <<>>
    /\ UNCHANGED <<Session, trigger, prompt, QueryState, uncaught, Probed, cleared>>

\* Variant A: if prompt := st.chat_input(...): append the user turn, call get_ai_response
SubmitA ==
    /\ pc = "main"
    /\ trigger = "submit"
    /\ variant = "A"
    /\ view' = MainArea
    /\ messages' = Append(messages, Turn("user", prompt))
    /\ cleared' = [cleared EXCEPT !.submits = @ + 1]
    /\ max_retries' = DefaultMaxRetries
    /\ attempt' = 0
    /\ events' = <<>>
    /\ pc' = "loop"
    /\ replies' = <<>>
    /\ UNCHANGED <<variant, trigger, prompt, result, response, uncaught, Probed>>

\* Variant A: the rest of get_ai_response once query_huggingface has returned
ExtractA ==
    /\ pc = "returned"
    /\ trigger = "submit"
    /\ LET r == get_ai_response(prompt, result) IN
        IF r.raised
        THEN /\ uncaught' = r.exc
             /\ pc' = "idle"
             /\ UNCHANGED response
        ELSE /\ response' = r.value
             /\ pc' = "responded"
             /\ UNCHANGED uncaught
    /\ UNCHANGED <<Session, trigger, view, prompt, max_retries, attempt, events, result,
                   Probed, replies, cleared>>

\* Variant B: the main area of a run that carries a prompt
SubmitB ==
    /\ pc = "main"
    /\ trigger = "submit"
    /\ variant = "B"
    /\ view' = MainArea
    /\ IF MainArea = "offline"
       THEN /\ pc' = "idle"
            /\ UNCHANGED <<messages, cleared>>
       ELSE /\ messages' = Append(messages, Turn("user", prompt))
            /\ cleared' = [cleared EXCEPT !.submits = @ + 1]
            /\ pc' = "generate"
    /\ replies' = <<>>
    /\ UNCHANGED <<variant, trigger, prompt, QueryState, uncaught, Probed>>

\* Variant B: get_ai_response -> query_ollama
Generate ==
    /\ pc = "generate"
    /\ \E o \in GenerateOutcomes :
        /\ events' = Append(events, PostEvent(o.status, o.exc, JNone))
        /\ response' = query_ollama(o)
    /\ pc' = "responded"
    /\ UNCHANGED <<Session, trigger, view, prompt, max_retries, attempt, result, uncaught,
                   Probed, replies, cleared>>

\* st.session_state.messages.append({"role": "assistant", "content": response})
AppendAssistant ==
    /\ pc = "responded"
    /\ messages' = Append(messages, Turn("assistant", response))
    /\ pc' = "idle"
    /\ UNCHANGED <<variant, trigger, view, prompt, QueryState, uncaught, Probed, replies,
                   cleared>>

Init ==
    /\ variant \in {"A", "B"}
    /\ pc = Entry
    /\ trigger = "load"
    /\ view = "none"
    /\ messages = <<>>
    /\ prompt = NoText
    /\ max_retries = 0
    /\ attempt = 0
    /\ events = <<>>
    /\ result = JNone
    /\ response = NoText
    /\ uncaught = "none"
    /\ ollama_status = NoStatus
    /\ available_models = <<>>
    /\ selected_model = DefaultModel
    /\ replies = <<>>
    /\ cleared = [dropped |-> 0, submits |-> 0]

Next ==
    \/ ClickClear \/ TypePrompt \/ Probe \/ ClearChat \/ Render
    \/ SubmitA \/ Post200 \/ Post503 \/ PostOther \/ PostFail \/ LoopExit \/ ExtractA
    \/ SubmitB \/ Generate \/ AppendAssistant

Spec == Init /\ [][Next]_vars

----------------------------------------------------------------------------
(* query_huggingface called directly *)

\* a direct call query_huggingface(payload, max_retries) with any max_retries
InitQuery ==
    /\ variant = "A"
    /\ pc = "loop"
    /\ trigger = "call"
    /\ view = "none"
    /\ messages = <<>>
    /\ prompt \in Prompts
    /\ max_retries \in 0..MaxRetriesBound
    /\ attempt = 0
    /\ events = <<>>
    /\ result = JNone
    /\ response = NoText
    /\ uncaught = "none"
    /\ ollama_status = NoStatus
    /\ available_models = <<>>
    /\ selected_model = DefaultModel
    /\ replies = <<>>
    /\ cleared = [dropped |-> 0, submits |-> 0]

NextQuery == Post200 \/ Post503 \/ PostOther \/ PostFail \/ LoopExit

SpecQuery == InitQuery /\ [][NextQuery]_vars


----------------------------------------------------------------------------
(* Reading the record of a query *)

Posts(evs) == SelectSeq(evs, LAMBDA e : e.kind = "post")

RECURSIVE TotalSleep(_)
TotalSleep(evs) ==
    IF evs = <<>> THEN 0 ELSE Head(evs).secs + TotalSleep(Tail(evs))

Answered(e, status) == e.kind = "post" /\ e.exc = "" /\ e.status = status
Failed(e) == e.kind = "post" /\ e.exc # ""

----------------------------------------------------------------------------
(* Claims *)

\* C1: with max_retries = N, a backend answering 503 on the first k attempts (k < N)
\* and 200 on attempt k+1 makes the call return that 200's parsed body after exactly
\* k+1 POSTs, a sleep of 2^i seconds following the i-th 503 (i from 0), 2^k - 1 seconds
\* in all; and the call does not give up while only 503s were seen and attempts remain.
C1_BackoffThenSuccess ==
    LET posts == Posts(events) IN
    /\ \A k \in 0..(max_retries - 1) :
        ( /\ Len(posts) > k
          /\ \A i \in 1..k : Answered(posts[i], 503)
          /\ Answered(posts[k + 1], 200) )
        => /\ pc = "returned"
           /\ Len(posts) = k + 1
           /\ result = posts[k + 1].body
           /\ Len(events) = 2 * k + 1
           /\ \A i \in 0..(k - 1) :
                /\ Answered(events[2 * i + 1], 503)
                /\ events[2 * i + 2] = SleepEvent(2 ^ i)
           /\ events[2 * k + 1] = posts[k + 1]
           /\ TotalSleep(events) = 2 ^ k - 1
    /\ ( /\ Len(posts) < max_retries
         /\ \A i \in 1..Len(posts) : Answered(posts[i], 503) )
       => pc = "loop"

\* C1 witness: N = 3, two 503s then a 200, after sleeping 1 then 2 seconds
C1_Witness ==
    /\ pc = "returned"
    /\ max_retries = 3
    /\ Len(events) = 5
    /\ Answered(events[1], 503) /\ events[2] = SleepEvent(1)
    /\ Answered(events[3], 503) /\ events[4] = SleepEvent(2)
    /\ Answered(events[5], 200)
    /\ result = events[5].body

\* C2 as stated: once max_retries attempts were made and each was a 503 or a network
\* failure, in any mix, the returned error is "Max retries exceeded".
C2_Original ==
    LET posts == Posts(events) IN
    ( /\ pc = "returned"
      /\ Len(posts) = max_retries
      /\ \A i \in 1..Len(posts) : Answered(posts[i], 503) \/ Failed(posts[i]) )
    => result = JErr(<<"Max retries exceeded">>)

\* C2 amended: once max_retries attempts were made, each a 503 or a network failure,
\* the returned error is "Max retries exceeded" when the last attempt answered 503
\* (or max_retries is 0), and the last exception's message when the last attempt was a
\* network failure.
C2_ExhaustedAfterLoading ==
    LET posts == Posts(events) IN
    ( /\ pc = "returned"
      /\ Len(posts) = max_retries
      /\ \A i \in 1..Len(posts) : Answered(posts[i], 503) \/ Failed(posts[i]) )
    => IF max_retries = 0 \/ Answered(posts[Len(posts)], 503)
       THEN result = JErr(<<"Max retries exceeded">>)
       ELSE result = JErr(<<posts[Len(posts)].exc>>)

\* C2 witness: a mix of failures and 503s, the last attempt a 503
C2_Witness ==
    LET posts == Posts(events) IN
    /\ pc = "returned"
    /\ max_retries = 3
    /\ Len(posts) = 3
    /\ Failed(posts[1]) /\ Answered(posts[2], 503) /\ Answered(posts[3], 503)
    /\ result = JErr(<<"Max retries exceeded">>)

\* C3: with max_retries = N >= 1 and every POST raising a network failure, the call
\* returns only after exactly N POSTs, having slept 1 second after each of the first
\* N-1 failures and not after the last, with the last exception's message as the error.
C3_AllFailures ==
    LET posts == Posts(events) IN
    ( /\ max_retries >= 1
      /\ \A i \in 1..Len(posts) : Failed(posts[i]) )
    => /\ pc = "returned" <=> Len(posts) = max_retries
       /\ pc = "returned" =>
            /\ Len(events) = 2 * max_retries - 1
            /\ \A i \in 1..(max_retries - 1) :
                 /\ Failed(events[2 * i - 1])
                 /\ events[2 * i] = SleepEvent(1)
            /\ Failed(events[Len(events)])
            /\ TotalSleep(events) = max_retries - 1
            /\ result = JErr(<<events[Len(events)].exc>>)

\* C3 witness: three failures with differing messages, the last one reported
C3_Witness ==
    /\ pc = "returned"
    /\ max_retries = 3
    /\ Len(events) = 5
    /\ Failed(events[1]) /\ Failed(events[3]) /\ Failed(events[5])
    /\ events[1].exc # events[5].exc
    /\ result = JErr(<<events[5].exc>>)

\* C4: an attempt answered with a status other than 200 and 503, first or later, ends
\* the call at once: nothing is slept or posted after it and the error names the status.
C4_OtherStatusFailsAtOnce ==
    \A i \in 1..Len(events) :
        ( /\ events[i].kind = "post"
          /\ events[i].exc = ""
          /\ events[i].status \notin {200, 503} )
        => /\ i = Len(events)
           /\ pc = "returned"
           /\ result = JErr(<<"HTTP ", ToString(events[i].status)>>)

\* C4 witness: a 500 on the third attempt, reached after a 503 and a failure
C4_Witness ==
    LET posts == Posts(events) IN
    /\ pc = "returned"
    /\ Len(posts) = 3
    /\ Answered(posts[1], 503) /\ Failed(posts[2]) /\ Answered(posts[3], 500)
    /\ max_retries > 3

\* C5 as stated: with the default 3 attempts all answered 503, the calling thread is
\* paused 1+2+4 = 7 seconds in total.
C5_Original ==
    LET posts == Posts(events) IN
    ( /\ variant = "A"
      /\ pc = "returned"
      /\ max_retries = 3
      /\ Len(posts) = 3
      /\ \A i \in 1..3 : Answered(posts[i], 503) )
    => TotalSleep(events) = 1 + 2 + 4

\* C5 amended: with the default 3 attempts all answered 503, the calling thread is
\* paused 1+2 = 3 seconds in total, the sleeps lying strictly between the attempts and
\* none following the last.
C5_WorstLoadingWait ==
    LET posts == Posts(events) IN
    ( /\ variant = "A"
      /\ pc = "returned"
      /\ max_retries = 3
      /\ Len(posts) = 3
      /\ \A i \in 1..3 : Answered(posts[i], 503) )
    => /\ TotalSleep(events) = 1 + 2
       /\ Len(events) = 5
       /\ Answered(events[1], 503) /\ events[2] = SleepEvent(1)
       /\ Answered(events[3], 503) /\ events[4] = SleepEvent(2)
       /\ Answered(events[5], 503)

\* C5 witness: a submission whose three attempts were all answered 503
C5_Witness ==
    /\ variant = "A"
    /\ trigger = "submit"
    /\ pc = "returned"
    /\ Len(Posts(events)) = 3
    /\ \A i \in 1..3 : Answered(Posts(events)[i], 503)
    /\ result = JErr(<<"Max retries exceeded">>)

\* C6 as stated: in Variant A no backend behaviour lets an exception escape
\* get_ai_response, and a finished submission has its response as the last, assistant turn.
C6_NoEscape ==
    variant = "A" =>
        /\ uncaught = "none"
        /\ (pc = "idle" /\ trigger = "submit") =>
              /\ messages # <<>>
              /\ messages[Len(messages)] = Turn("assistant", response)

\* C7: a clear leaves the log empty whatever it held; the first submission after it
\* makes the log just the new user turn while the response is awaited, and that turn
\* followed by the assistant turn holding the response once it is there.
C7_ClearThenSubmit ==
    /\ trigger = "rerun" => messages = <<>>
    /\ cleared.submits = 0 => messages = <<>>
    /\ (cleared.submits = 1 /\ trigger = "submit") =>
         /\ pc \in {"loop", "returned", "generate", "responded"}
              => messages = <<Turn("user", prompt)>>
         /\ (pc = "idle" /\ uncaught = "none")
              => messages = <<Turn("user", prompt), Turn("assistant", response)>>

\* C7 witness: a clear dropped turns and the submission after it has been answered
C7_Witness ==
    /\ cleared.dropped >= 2
    /\ cleared.submits = 1
    /\ trigger = "submit"
    /\ pc = "idle"
    /\ Len(messages) = 2

\* C8: when the GET of the listing endpoint fails at the connection level,
\* check_ollama_status returns reachable = false and get_available_models returns the
\* empty list, neither raising; get_available_models also returns the empty list on a
\* non-200 status or a malformed body.
C8_ProbesDegrade ==
    (variant = "B" /\ replies # <<>>) =>
        /\ replies[1].exc \in RequestExceptions =>
              /\ uncaught = "none"
              /\ pc = "main"
              /\ ollama_status.reachable = FALSE
        /\ ( \/ replies[2].exc \in RequestExceptions
             \/ replies[2].exc = "" /\ replies[2].status # 200
             \/ replies[2].kind \in {"notjson", "array", "nullmodels", "noname"} ) =>
              /\ uncaught = "none"
              /\ pc = "main"
              /\ available_models = <<>>

\* C8 witness: both GETs have failed, one refused and one timed out
C8_Witness ==
    /\ variant = "B"
    /\ replies # <<>>
    /\ replies[1].exc = "ReadTimeout"
    /\ replies[2].exc = "ConnectionError"
    /\ ollama_status.reachable = FALSE
    /\ available_models = <<>>

\* C9 as stated: in Variant B a run whose status probe reports reachable = false takes
\* the offline branch: no chat input, no generate POST, the log left as it was.
C9_OfflineGate ==
    ( /\ variant = "B"
      /\ pc \in {"idle", "generate", "responded"}
      /\ ollama_status.keys # {}
      /\ ollama_status.reachable = FALSE )
    => /\ view = "offline"
       /\ pc = "idle"
       /\ events = <<>>

\* C10 as stated: whenever the view is idle the log has even length and alternates
\* user, assistant from the first turn on.
C10_Alternation ==
    pc = "idle" =>
        /\ Len(messages) % 2 = 0
        /\ \A i \in 1..Len(messages) :
             messages[i].role = (IF i % 2 = 1 THEN "user" ELSE "assistant")

=============================================================================
